---------------------------- MODULE Spec2Model ----------------------------
(***************************************************************************)
(* Model of setup_peertube.py: the provisioning run of main() against one  *)
(* host, repeated by the operator.  Text values that the program inspects  *)
(* character by character (domain, https flag, command lines) are          *)
(* sequences of one-character strings; all other names are plain strings.  *)
(***************************************************************************)
EXTENDS Integers, Sequences, FiniteSets, TLC

VARIABLES
    host,       \* the machine: accounts, database catalog, files, PATH
    host0,      \* the machine as it was when the current run started
    prev,       \* summary of the previous run on this host (Nothing before the first)
    isRoot,     \* os.geteuid() == 0 for the current run
    argv,       \* command-line overlay of the current run
    pc,         \* position of the current run inside main()
    cfg,        \* result of parse_args (Nothing before it ran)
    secret,     \* value returned by gen_secret_hex in this run
    yaml_text,  \* document built by build_production_yaml in this run
    status,     \* "Running" | "Completed" | "Aborted"
    exitCode,   \* process exit status once the run ended (-1 while it runs)
    abortAt,    \* operation whose exception ended the run
    steps,      \* reconciliation steps entered in this run, in order
    cmdLog,     \* external operations performed in this run, in order
    last,       \* the command started most recently and how it ended
    probe,      \* what the catalog probes of ensure_db printed
    certCmd,    \* argument vector of the certificate command, once executed
    printed,    \* the "URL:" line of the summary
    runNo,      \* how many times the operator has started the program
    shown,      \* the "$ ..." lines printed by run() in this run, in order
    input,      \* argument of a function called on its own (Nothing inside main())
    output      \* what that call returned

runVars == <<isRoot, argv, pc, cfg, secret, yaml_text, status, exitCode, abortAt,
             steps, cmdLog, last, probe, certCmd, printed, runNo, shown>>
vars == <<host, host0, prev, isRoot, argv, pc, cfg, secret, yaml_text, status, exitCode,
          abortAt, steps, cmdLog, last, probe, certCmd, printed, runNo, shown,
          input, output>>

None == "none"

\* a file, record or line that is not there
NoFile == [exists |-> FALSE]
Nothing == [exists |-> FALSE]

\* Largest number of runs the operator starts on one host.
MaxRuns == 2

Range(s) == {s[i] : i \in DOMAIN s}
Last(s) == s[Len(s)]
Count(s, x) == Cardinality({i \in DOMAIN s : s[i] = x})

(***************************************************************************)
(* Text constants                                                          *)
(***************************************************************************)
Digits == {"0", "1", "2", "3", "4", "5", "6", "7", "8", "9"}
UpperChars == <<"A", "B", "C", "D", "E", "F", "G", "H", "I", "J", "K", "L", "M",
                "N", "O", "P", "Q", "R", "S", "T", "U", "V", "W", "X", "Y", "Z">>
LowerChars == <<"a", "b", "c", "d", "e", "f", "g", "h", "i", "j", "k", "l", "m",
                "n", "o", "p", "q", "r", "s", "t", "u", "v", "w", "x", "y", "z">>
Whitespace == {" ", "\t", "\n", "\r"}

DefaultDomain == <<"v", "i", "d", "e", "o", "s", ".", "e", "x", "a", "m", "p", "l", "e",
                   ".", "c", "o", "m">>
FromPrefix == <<"P", "e", "e", "r", "T", "u", "b", "e", " ", "<", "n", "o", "-", "r",
                "e", "p", "l", "y", "@">>
DefaultFrom == FromPrefix \o DefaultDomain \o <<">">>

PEERTUBE_BRANCH == "production"
SITE_FILE == "/etc/nginx/sites-available/peertube"
SERVICE_FILE == "/etc/systemd/system/peertube.service"

(***************************************************************************)
(* Pure helpers of the program                                             *)
(***************************************************************************)
RECURSIVE LStrip(_)
LStrip(s) == IF s # <<>> /\ Head(s) \in Whitespace THEN LStrip(Tail(s)) ELSE s

RECURSIVE RStrip(_)
RStrip(s) ==
    IF s # <<>> /\ Last(s) \in Whitespace THEN RStrip(SubSeq(s, 1, Len(s) - 1)) ELSE s

StripNothing(s) == s

\* str.strip(), for the whitespace characters of Whitespace
Strip(s) == RStrip(LStrip(s))

LowerChar(c) ==
    IF \E i \in DOMAIN UpperChars : UpperChars[i] = c
    THEN LowerChars[CHOOSE i \in DOMAIN UpperChars : UpperChars[i] = c]
    ELSE c

Lower(s) == [i \in DOMAIN s |-> LowerChar(s[i])]

TruthyStrings == {<<"1">>, <<"t", "r", "u", "e">>, <<"y", "e", "s">>, <<"y">>, <<"o", "n">>}

\* Python values that reach bool_str: a bool, a str, a non-negative int.
PyBool(b) == [t |-> "bool", b |-> b, s |-> <<>>, n |-> 0]
PyStr(s) == [t |-> "str", b |-> FALSE, s |-> s, n |-> 0]
PyInt(n) == [t |-> "int", b |-> FALSE, s |-> <<>>, n |-> n]

\* decimal digits of a non-negative integer
RECURSIVE Decimal(_)
Decimal(n) ==
    LET d == <<"0", "1", "2", "3", "4", "5", "6", "7", "8", "9">>[(n % 10) + 1]
    IN  IF n < 10 THEN <<d>> ELSE Append(Decimal(n \div 10), d)

\* str(x)
str(x) == IF x.t = "int" THEN Decimal(x.n) ELSE x.s

bool_str(x) ==
    IF x.t = "bool"
    THEN (IF x.b THEN "true" ELSE "false")
    ELSE (IF Lower(Strip(str(x))) \in TruthyStrings THEN "true" ELSE "false")

\* s[i .. i+n-1] exists and consists of digits
DigitsRun(s, i, n) == i + n - 1 <= Len(s) /\ \A j \in i .. (i + n - 1) : s[j] \in Digits

\* positions reached after the leading \d{1,3}
FirstGroupEnds(s) == {1 + n : n \in {m \in 1 .. 3 : DigitsRun(s, 1, m)}}

\* positions reached after k more repetitions of (\.\d{1,3})
RECURSIVE DotGroupEnds(_, _, _)
DotGroupEnds(s, P, k) ==
    IF k = 0 THEN P
    ELSE DotGroupEnds(s,
             UNION {{p + 1 + n : n \in {m \in 1 .. 3 :
                                          /\ p <= Len(s)
                                          /\ s[p] = "."
                                          /\ DigitsRun(s, p + 1, m)}} : p \in P},
             k - 1)

is_ip_always_false(hostname) == FALSE

\* re.match(r"^\d{1,3}(\.\d{1,3}){3}$", host): "$" also matches before a final newline
is_ip(hostname) ==
    \E p \in DotGroupEnds(hostname, FirstGroupEnds(hostname), 3) :
        \/ p = Len(hostname) + 1
        \/ p = Len(hostname) /\ hostname[p] = "\n"

SafeChars == Digits \cup Range(UpperChars) \cup Range(LowerChars)
                 \cup {"@", "%", "+", "=", ":", ",", ".", "/", "-", "_"}

RECURSIVE EscapeQuotes(_)
EscapeQuotes(s) ==
    IF s = <<>> THEN <<>>
    ELSE IF Head(s) = "'"
         THEN <<"'", "\"", "'", "\"", "'">> \o EscapeQuotes(Tail(s))
         ELSE <<Head(s)>> \o EscapeQuotes(Tail(s))

shlex_quote(s) ==
    IF s = <<>> THEN <<"'", "'">>
    ELSE IF \A i \in DOMAIN s : s[i] \in SafeChars THEN s
    ELSE <<"'">> \o EscapeQuotes(s) \o <<"'">>

(* shlex.split in POSIX mode: whitespace separates words, '...' is literal,   *)
(* "..." groups, a backslash outside single quotes takes the next character.  *)
(* ScanWord reads one word from position i; mode is "" (unquoted), "'" or     *)
(* "\""; it yields the word and the position after it.                        *)
RECURSIVE ScanWord(_, _, _, _)
ScanWord(s, i, cur, mode) ==
    IF i > Len(s) THEN [tok |-> cur, at |-> i]
    ELSE IF mode = "'"
    THEN (IF s[i] = "'" THEN ScanWord(s, i + 1, cur, "")
          ELSE ScanWord(s, i + 1, Append(cur, s[i]), mode))
    ELSE IF mode = "\""
    THEN (IF s[i] = "\"" THEN ScanWord(s, i + 1, cur, "")
          ELSE IF s[i] = "\\" /\ i < Len(s) /\ s[i + 1] \in {"\"", "\\"}
          THEN ScanWord(s, i + 2, Append(cur, s[i + 1]), mode)
          ELSE ScanWord(s, i + 1, Append(cur, s[i]), mode))
    ELSE IF s[i] \in Whitespace THEN [tok |-> cur, at |-> i]
    ELSE IF s[i] = "'" \/ s[i] = "\"" THEN ScanWord(s, i + 1, cur, s[i])
    ELSE IF s[i] = "\\" /\ i < Len(s) THEN ScanWord(s, i + 2, Append(cur, s[i + 1]), "")
    ELSE ScanWord(s, i + 1, Append(cur, s[i]), "")

\* first position from i on that holds no whitespace (Len(s) + 1 when there is none)
SkipBlanks(s, i) ==
    LET rest == {j \in i .. Len(s) : s[j] \notin Whitespace}
    IN  IF rest = {} THEN Len(s) + 1 ELSE CHOOSE j \in rest : \A k \in rest : j <= k

RECURSIVE WordsFrom(_, _)
WordsFrom(s, i) ==
    LET j == SkipBlanks(s, i)
    IN  IF j > Len(s) THEN <<>>
        ELSE LET r == ScanWord(s, j, <<>>, "")
             IN  <<r.tok>> \o WordsFrom(s, r.at)

shlex_split(s) == WordsFrom(s, 1)

RECURSIVE JoinWords(_)
JoinWords(ws) ==
    IF ws = <<>> THEN <<>>
    ELSE IF Len(ws) = 1 THEN ws[1]
    ELSE ws[1] \o <<" ">> \o JoinWords(Tail(ws))


(***************************************************************************)
(* Options                                                                 *)
(***************************************************************************)
DEFAULTS ==
    [domain       |-> DefaultDomain,
     https        |-> <<"t", "r", "u", "e">>,
     web_port     |-> 9000,
     db_port      |-> 5432,
     smtp_port    |-> 587,
     pt_user      |-> "peertube",
     pt_home      |-> "/var/www",
     db_user      |-> "peertube",
     db_pass      |-> "CHANGE_ME_DB_PASS",
     db_name      |-> "peertube",
     from_address |-> DefaultFrom,
     languages    |-> <<"e", "n", ",", "d", "e", ",", "a", "r">>,
     resolutions  |-> <<"7", "2", "0", "p", ",", "1", "0", "8", "0", "p">>]

IntKeys == {"web_port", "db_port", "smtp_port"}

\* int(value) succeeds: optional blanks and sign around digits, where single
\* underscores may stand between two digits
IsIntText(v) ==
    LET t == Strip(v)
        u == IF t # <<>> /\ Head(t) \in {"+", "-"} THEN Tail(t) ELSE t
    IN  /\ u # <<>>
        /\ \A i \in DOMAIN u :
              \/ u[i] \in Digits
              \/ /\ u[i] = "_" /\ 1 < i /\ i < Len(u)
                 /\ u[i - 1] \in Digits /\ u[i + 1] \in Digits

DigitValue(c) == CHOOSE n \in 0 .. 9 : <<"0", "1", "2", "3", "4", "5", "6", "7", "8", "9">>[n + 1] = c

RECURSIVE DigitsValue(_)
DigitsValue(u) ==
    IF u = <<>> THEN 0
    ELSE IF Last(u) = "_" THEN DigitsValue(SubSeq(u, 1, Len(u) - 1))
    ELSE 10 * DigitsValue(SubSeq(u, 1, Len(u) - 1)) + DigitValue(Last(u))

IntOf(v) ==
    LET t == Strip(v)
    IN  IF Head(t) = "-" THEN 0 - DigitsValue(Tail(t))
        ELSE IF Head(t) = "+" THEN DigitsValue(Tail(t))
        ELSE DigitsValue(t)

OverlayZeroOnFailure(c, arg) ==
    IF arg.key \notin DOMAIN c THEN c
    ELSE IF arg.key \in {"web_port", "db_port", "smtp_port"}
         THEN [c EXCEPT ![arg.key] = IF IsIntText(arg.value) THEN IntOf(arg.value) ELSE 0]
         ELSE [c EXCEPT ![arg.key] = arg.value]

\* one --key=value argument laid over the table
Overlay(c, arg) ==
    IF arg.key \notin DOMAIN c THEN c
    ELSE IF arg.key \in IntKeys
         THEN [c EXCEPT ![arg.key] = IF IsIntText(arg.value) THEN IntOf(arg.value) ELSE @]
         ELSE [c EXCEPT ![arg.key] = arg.value]

RECURSIVE OverlayAll(_, _)
OverlayAll(c, args) ==
    IF args = <<>> THEN c ELSE OverlayAll(Overlay(c, Head(args)), Tail(args))

parse_args(args) ==
    LET c == OverlayAll(DEFAULTS, args)
    IN  IF c.from_address = DefaultFrom
        THEN [c EXCEPT !.from_address = FromPrefix \o c.domain \o <<">">>]
        ELSE c

\* the keys of the table as they are spelled on the command line
KeyTexts ==
    {[name |-> "domain", text |-> <<"d", "o", "m", "a", "i", "n">>],
     [name |-> "https", text |-> <<"h", "t", "t", "p", "s">>],
     [name |-> "web_port", text |-> <<"w", "e", "b", "_", "p", "o", "r", "t">>],
     [name |-> "db_port", text |-> <<"d", "b", "_", "p", "o", "r", "t">>],
     [name |-> "smtp_port", text |-> <<"s", "m", "t", "p", "_", "p", "o", "r", "t">>],
     [name |-> "pt_user", text |-> <<"p", "t", "_", "u", "s", "e", "r">>],
     [name |-> "pt_home", text |-> <<"p", "t", "_", "h", "o", "m", "e">>],
     [name |-> "db_user", text |-> <<"d", "b", "_", "u", "s", "e", "r">>],
     [name |-> "db_pass", text |-> <<"d", "b", "_", "p", "a", "s", "s">>],
     [name |-> "db_name", text |-> <<"d", "b", "_", "n", "a", "m", "e">>],
     [name |-> "from_address", text |-> <<"f", "r", "o", "m", "_", "a", "d", "d", "r", "e", "s", "s">>],
     [name |-> "languages", text |-> <<"l", "a", "n", "g", "u", "a", "g", "e", "s">>],
     [name |-> "resolutions", text |-> <<"r", "e", "s", "o", "l", "u", "t", "i", "o", "n", "s">>]}

\* arg.startswith("--") and "=" in arg
IsOption(a) == Len(a) >= 2 /\ a[1] = "-" /\ a[2] = "-" /\ \E i \in DOMAIN a : a[i] = "="

\* arg[2:].split("=", 1): the key before the first "=", the value after it
OptionKey(a) ==
    LET e == CHOOSE i \in DOMAIN a : a[i] = "=" /\ \A j \in 1 .. (i - 1) : a[j] # "="
    IN  SubSeq(a, 3, e - 1)

OptionValue(a) ==
    LET e == CHOOSE i \in DOMAIN a : a[i] = "=" /\ \A j \in 1 .. (i - 1) : a[j] # "="
    IN  SubSeq(a, e + 1, Len(a))

\* key.strip().replace("-", "_")
NormalKey(k) == LET t == Strip(k) IN [i \in DOMAIN t |-> IF t[i] = "-" THEN "_" ELSE t[i]]

\* the table key a spelled key names ("?" when the table has no such key)
KeyName(k) ==
    IF \E r \in KeyTexts : r.text = k
    THEN (CHOOSE r \in KeyTexts : r.text = k).name
    ELSE "?"

ArgRecord(a) == [key |-> KeyName(NormalKey(OptionKey(a))), value |-> OptionValue(a)]

\* parse_args on the words of the command line
parse_argv(words) ==
    LET opts == SelectSeq(words, IsOption)
    IN  parse_args([i \in DOMAIN opts |-> ArgRecord(opts[i])])

pt_dir(c) == <<c.pt_home, "peertube">>

\* Inputs of the runs
Domains == {<<>>, <<"a", ".", "b">>, <<"1", ".", "2", ".", "3", ".", "4">>}
HttpsValues == {<<" ", "Y", "e", "s">>, <<"f", "a", "l", "s", "e">>}
DbPasswords == {"pw1", "pw2"}
\* every domain with https wanted, and a host name with https not wanted
DomainHttps ==
    {dh \in Domains \X HttpsValues :
        bool_str(PyStr(dh[2])) = "true" \/ (dh[1] # <<>> /\ ~is_ip(dh[1]))}

\* the first run on a host is given one password, a later run the same or another one
Argvs ==
    {<<[key |-> "domain", value |-> dh[1]], [key |-> "https", value |-> dh[2]],
       [key |-> "db_pass", value |-> "pw1"]>> : dh \in DomainHttps}

\* gen_secret_hex
NBYTES == 32

HexChars == <<"0", "1", "2", "3", "4", "5", "6", "7", "8", "9", "a", "b", "c", "d", "e", "f">>

\* bytes.hex(): two lowercase hexadecimal digits for each byte
RECURSIVE Hex(_)
Hex(bytes) ==
    IF bytes = <<>> THEN <<>>
    ELSE <<HexChars[(Head(bytes) \div 16) + 1], HexChars[(Head(bytes) % 16) + 1]>>
             \o Hex(Tail(bytes))

\* os.urandom(n): byte strings the generator may deliver
Urandom(n) == {[i \in 1 .. n |-> (k * i + k) % 256] : k \in {7, 201}}

gen_secret_hex(bytes) == Hex(bytes)

Secrets == {gen_secret_hex(b) : b \in Urandom(NBYTES)}

\* no secret drawn yet
NoSecret == <<>>

\* what the operator passes when starting the program again: the same arguments,
\* or the same with another database password
Reruns(args) ==
    {args} \cup {[args EXCEPT ![3] = [key |-> "db_pass", value |-> p]] : p \in DbPasswords}

(***************************************************************************)
(* The host                                                                *)
(***************************************************************************)
ENV_WORD == "DEBIAN_FRONTEND=noninteractive"

OperatorUnit == [exists |-> TRUE, user |-> "operator", dir |-> <<"/srv", "custom">>]

FreshHosts ==
    {[envWordOnPath |-> e,      \* a program named like ENV_WORD can be executed
      ufw           |-> u,      \* "command -v ufw" succeeds
      yarn          |-> FALSE,  \* "command -v yarn" succeeds
      userExists    |-> FALSE,  \* the service account
      groupExists   |-> FALSE,  \* a group named like the service account
      homeDir       |-> FALSE,
      rolePass      |-> None,   \* stored password of the database role
      dbOwner       |-> None,   \* owner of the database
      checkout      |-> FALSE,  \* pt_dir exists
      worktree      |-> None,   \* commit the working tree holds, "local" when modified
      originRef     |-> None,   \* commit of origin/PEERTUBE_BRANCH in the checkout
      configFile    |-> NoFile,   \* [content, mode, owner] of config/production.yaml
      siteFile      |-> NoFile,   \* [server_name, port] of SITE_FILE
      siteLinked    |-> FALSE,
      unitFile      |-> f] :    \* [user, dir] of SERVICE_FILE
        e \in BOOLEAN, u \in BOOLEAN, f \in {NoFile, OperatorUnit}}

\* hosts the operator prepared beforehand: the service account in a primary group of
\* another name; or account, group and a checkout that was modified locally
PreparedHosts ==
    LET base == {g \in FreshHosts : g.envWordOnPath /\ g.ufw /\ ~g.unitFile.exists}
    IN  {[h EXCEPT !.userExists = TRUE, !.homeDir = TRUE] : h \in base}
        \cup {[h EXCEPT !.userExists = TRUE, !.groupExists = TRUE, !.homeDir = TRUE,
                        !.checkout = TRUE, !.worktree = "local", !.originRef = "c0"] :
                 h \in base}

Hosts == FreshHosts \cup PreparedHosts

\* head of PEERTUBE_BRANCH in PEERTUBE_REPO at the time of the n-th run
UpstreamHeads == <<"c1", "c2", "c3", "c4">>
UpstreamHead(n) == UpstreamHeads[n]

(***************************************************************************)
(* Order of main()                                                         *)
(***************************************************************************)
StepAfterSwapped(step) ==
    CASE step = "options"    -> "packages"
      [] step = "packages"   -> "user"
      [] step = "user"       -> "db"
      [] step = "db"         -> "checkout"
      [] step = "checkout"   -> "deps"
      [] step = "deps"       -> "config"
      [] step = "config"     -> "cert"
      [] step = "cert"       -> "proxy"
      [] step = "proxy"      -> "unit"
      [] step = "unit"       -> "firewall"
      [] step = "firewall"   -> "summary"
      [] step = "summary"    -> "end"

\* the call that follows each call of main()
StepAfter(step) ==
    CASE step = "options"    -> "packages"
      [] step = "packages"   -> "user"
      [] step = "user"       -> "db"
      [] step = "db"         -> "checkout"
      [] step = "checkout"   -> "deps"
      [] step = "deps"       -> "config"
      [] step = "config"     -> "proxy"
      [] step = "proxy"      -> "cert"
      [] step = "cert"       -> "unit"
      [] step = "unit"       -> "firewall"
      [] step = "firewall"   -> "summary"
      [] step = "summary"    -> "end"

\* first operation of each step
Entry(step) ==
    CASE step = "options"    -> "parse_args"
      [] step = "packages"   -> "apt_update"
      [] step = "user"       -> "getpwnam"
      [] step = "db"         -> "role_probe"
      [] step = "checkout"   -> "checkout_exists"
      [] step = "deps"       -> "yarn_install"
      [] step = "config"     -> "render"
      [] step = "proxy"      -> "site_write"
      [] step = "cert"       -> "cert_decide"
      [] step = "unit"       -> "unit_exists"
      [] step = "firewall"   -> "ufw_probe"
      [] step = "summary"    -> "summary"
      [] step = "end"        -> "exit"

PackagesOps == {"apt_update", "apt_install_base", "nodesource_setup", "apt_install_nodejs",
                "corepack_enable", "yarn_version", "yarn_probe", "npm_install_yarn",
                "apt_install_services", "systemctl_enable_now"}
UserOps == {"getpwnam", "adduser", "mkdir_home"}
DbOps == {"role_probe", "create_role", "db_probe", "create_db"}
CheckoutOps == {"checkout_exists", "git_clone", "git_fetch", "git_reset"}
DepsOps == {"yarn_install"}
ConfigOps == {"render", "cfg_mkdir", "cfg_write", "cfg_chmod", "cfg_chown"}
ProxyOps == {"site_write", "ln_site", "nginx_t", "nginx_reload"}
CertOps == {"cert_decide", "certbot"}
UnitOps == {"unit_exists", "unit_write", "daemon_reload", "systemctl_enable",
            "systemctl_restart", "sleep", "systemctl_status"}
FirewallOps == {"ufw_probe", "ufw_allow_80", "ufw_allow_443"}

StepOf(op) ==
    CASE op \in {"start", "parse_args"} -> "options"
      [] op \in PackagesOps -> "packages"
      [] op \in UserOps     -> "user"
      [] op \in DbOps       -> "db"
      [] op \in CheckoutOps -> "checkout"
      [] op \in DepsOps     -> "deps"
      [] op \in ConfigOps   -> "config"
      [] op \in ProxyOps    -> "proxy"
      [] op \in CertOps     -> "cert"
      [] op \in UnitOps     -> "unit"
      [] op \in FirewallOps -> "firewall"
      [] op = "summary"     -> "summary"
      [] OTHER              -> "end"

(***************************************************************************)
(* The command runner                                                      *)
(***************************************************************************)
\* commands given to run() with check=False
UncheckedCmds == {"corepack_enable", "yarn_version", "certbot", "systemctl_enable",
                  "systemctl_restart", "systemctl_status", "ufw_allow_80", "ufw_allow_443"}

CheckAll(cmd) == TRUE

CheckExceptYarnInstall(cmd) == cmd \notin UncheckedCmds \cup {"yarn_install"}

Check(cmd) == cmd \notin UncheckedCmds

\* processes started with subprocess.run where they are needed, not through run()
DirectProcesses == {"yarn_probe", "role_probe", "db_probe", "ufw_probe"}

\* files and directories the program writes itself
FileOps == {"mkdir_home", "cfg_write", "site_write", "unit_write"}

\* commands given to run() with shell=True
ShellCmds == {"nodesource_setup", "create_role", "create_db", "sleep"}

\* commands given to run() with user=pt_user
AsUserCmds == {"git_clone", "git_fetch", "git_reset", "yarn_install",
               "cu_clone", "cu_checkout", "cu_fetch", "cu_reset", "cu_pull"}

\* first word of each command string given to run()
FirstWord(cmd) ==
    CASE cmd \in {"apt_update", "apt_install_nodejs", "apt_install_services"} -> "apt-get"
      [] cmd = "apt_install_base" -> ENV_WORD
      [] cmd = "nodesource_setup" -> "curl"
      [] cmd = "corepack_enable" -> "corepack"
      [] cmd = "yarn_version" -> "yarn"
      [] cmd = "npm_install_yarn" -> "npm"
      [] cmd \in {"systemctl_enable_now", "nginx_reload", "daemon_reload", "systemctl_enable",
                  "systemctl_restart", "systemctl_status"} -> "systemctl"
      [] cmd = "adduser" -> "adduser"
      [] cmd \in {"create_role", "create_db"} -> "sudo"
      [] cmd \in {"git_clone", "git_fetch", "git_reset", "cu_clone", "cu_checkout",
                  "cu_fetch", "cu_reset", "cu_pull"} -> "git"
      [] cmd = "yarn_install" -> "yarn"
      [] cmd = "ln_site" -> "ln"
      [] cmd = "nginx_t" -> "nginx"
      [] cmd = "certbot" -> "certbot"
      [] cmd = "sleep" -> "sleep"
      [] cmd \in {"ufw_allow_80", "ufw_allow_443"} -> "ufw"

\* commands given to run() as a list of words; every other one is a string
ListCmds == {"adduser"}

\* command strings that hold a pipe or an inline environment assignment
OperatorCmds == {"apt_install_base", "nodesource_setup"}

\* the shell that reads the text of a command started by run(), if any: bash -lc
\* behind sudo -u for a command run as a user by root, /bin/sh with shell=True
Interpreter(cmd, root) ==
    IF cmd \in AsUserCmds /\ root THEN "bash"
    ELSE IF cmd \in ShellCmds THEN "/bin/sh"
    ELSE None

\* commands given to run() with cwd=
InDirCmds == {"git_fetch", "git_reset", "yarn_install",
              "cu_checkout", "cu_fetch", "cu_reset", "cu_pull"}

\* no working directory given: the command starts where the program is
NoDir == <<>>

\* the options in force: those of the run, the defaults for a function called alone
Options(c) == IF c = Nothing THEN DEFAULTS ELSE c

\* the user= argument of run() for a command
UserArg(cmd, c) == IF cmd \in AsUserCmds THEN Options(c).pt_user ELSE None

\* the cwd= argument of run() for a command
CwdArg(cmd, c) == IF cmd \in InDirCmds THEN pt_dir(Options(c)) ELSE NoDir

\* the account of the process: os.geteuid() == 0 or not
Euid(root) == IF root THEN "root" ELSE "operator"

IdentityOfCaller(user, root) == Euid(root)

\* the account a command of run() executes under: sudo -u user when a user is
\* given and the process is root, the account of the process otherwise
Identity(user, root) ==
    IF user # None /\ user # "" /\ root THEN user ELSE Euid(root)

\* the program that subprocess.run starts for a command
ExecProgram(cmd, root) ==
    IF cmd \in AsUserCmds /\ root THEN "sudo"
    ELSE IF cmd \in ShellCmds THEN "/bin/sh"
    ELSE FirstWord(cmd)

\* the program can be started on host h
OnPath(h, prog) ==
    CASE prog = ENV_WORD -> h.envWordOnPath
      [] prog = "yarn"   -> h.yarn
      [] prog = "ufw"    -> h.ufw
      [] OTHER           -> TRUE

\* results of starting a command: exit status zero, non-zero, or no such program.
\* A create on something that exists, or an update of a missing checkout, fails.
Outcomes(h, cmd, root) ==
    IF ~OnPath(h, ExecProgram(cmd, root)) THEN {"enoent"}
    ELSE IF \/ cmd = "adduser" /\ h.userExists
            \/ cmd = "create_role" /\ h.rolePass # None
            \/ cmd = "create_db" /\ (h.dbOwner # None \/ h.rolePass = None)
            \/ cmd \in {"git_clone", "cu_clone"} /\ h.checkout
            \/ cmd \in {"git_fetch", "git_reset", "cu_checkout", "cu_fetch", "cu_reset",
                        "cu_pull"} /\ ~h.checkout
         THEN {"fail"}
    ELSE {"ok", "fail"}

\* subprocess.run raises: the program is missing, or check is set and it failed
Raises(cmd, out) == out = "enoent" \/ (Check(cmd) /\ out = "fail")


(***************************************************************************)
(* Decisions taken by the steps                                            *)
(***************************************************************************)
MustExitNever(root) == FALSE

\* require_root: the run exits when the effective uid is not 0
MustExit(root) == ~root

\* ensure_user: pwd.getpwnam raised KeyError
NeedsAdduser(h) == ~h.userExists

\* what the catalog queries of ensure_db print: a row "1" when the object exists
PsqlPrintsOne(h, what) ==
    IF what = "role" THEN h.rolePass # None ELSE h.dbOwner # None

AbsentAlways(printsOne) == TRUE

\* ensure_db: "1" not in ret.stdout
Absent(printsOne) == ~printsOne

NeedsUnitWriteAlways(h) == TRUE

NeedsUnitWriteStale(h) == ~h.unitFile.exists \/ h.unitFile.user = "operator"

\* write_systemd_service: not Path(SERVICE_FILE).exists()
NeedsUnitWrite(h) == ~h.unitFile.exists

ResetTargetKeepLocal(h) == IF h.worktree = "local" THEN "local" ELSE h.originRef

\* "git reset --hard origin/<branch>": index and working tree become that commit
ResetTarget(h) == h.originRef

\* "git pull --rebase": commits made locally are applied anew on top of the fetched
\* head (they become other commits); a tree without local commits takes the head
PullRebase(h) == IF h.worktree = "ahead" THEN "rebased" ELSE h.originRef

write_text_keep_secret(old, text) ==
    IF old.exists THEN [text EXCEPT !.secret = old.content.secret] ELSE text

\* Path.write_text: the file is truncated and holds the text given
write_text(old, text) == text

\* write_file: the lookups of owner and group and os.chown succeed
ChownSucceeds(h, user) == h.userExists /\ h.groupExists

\* text.split(","): the pieces between the commas
RECURSIVE SplitComma(_)
SplitComma(text) ==
    IF \A i \in DOMAIN text : text[i] # "," THEN <<text>>
    ELSE LET c == CHOOSE i \in DOMAIN text : text[i] = "," /\ \A j \in 1 .. (i - 1) : text[j] # ","
         IN  <<SubSeq(text, 1, c - 1)>> \o SplitComma(SubSeq(text, c + 1, Len(text)))

NotBlank(piece) == Strip(piece) # <<>>

\* main: [s.strip() for s in str(value).split(",") if s.strip()]
ListOption(text) ==
    LET kept == SelectSeq(SplitComma(text), NotBlank)
    IN  [i \in DOMAIN kept |-> Strip(kept[i])]

\* an optional list argument: a list, or None
Given(items) == [given |-> TRUE, items |-> items]
NoList == [given |-> FALSE, items |-> <<>>]

res_keys == <<<<"0", "p">>,
              <<"1", "4", "4", "p">>,
              <<"2", "4", "0", "p">>,
              <<"3", "6", "0", "p">>,
              <<"4", "8", "0", "p">>,
              <<"7", "2", "0", "p">>,
              <<"1", "0", "8", "0", "p">>,
              <<"1", "4", "4", "0", "p">>,
              <<"2", "1", "6", "0", "p">>>>

res_map_unless_empty(resolutions) ==
    LET chosen == IF ~resolutions.given \/ resolutions.items = <<>>
                  THEN <<<<"7", "2", "0", "p">>, <<"1", "0", "8", "0", "p">>>>
                  ELSE resolutions.items
    IN  [k \in Range(res_keys) |->
            IF \E i \in DOMAIN chosen : chosen[i] = k THEN "true" ELSE "false"]

\* build_production_yaml: the flag of every tier; None stands for 720p and 1080p
res_map(resolutions) ==
    LET chosen == IF ~resolutions.given
                  THEN <<<<"7", "2", "0", "p">>, <<"1", "0", "8", "0", "p">>>>
                  ELSE resolutions.items
    IN  [k \in Range(res_keys) |->
            IF \E i \in DOMAIN chosen : chosen[i] = k THEN "true" ELSE "false"]

build_production_yaml(c, s, languages, resolutions) ==
    [https        |-> bool_str(PyStr(c.https)),
     hostname     |-> c.domain,
     port         |-> c.web_port,
     secret       |-> s,
     db_user      |-> c.db_user,
     db_pass      |-> c.db_pass,
     db_name      |-> c.db_name,
     from_address |-> c.from_address,
     languages    |-> IF languages.given THEN languages.items ELSE <<>>,
     resolutions  |-> res_map(resolutions)]

\* main: the document of a run, from its options and its secret
RenderFrom(c, s) ==
    build_production_yaml(c, s, Given(ListOption(c.languages)),
                          Given(ListOption(c.resolutions)))

\* words of the certificate command line
W_CERTBOT == <<"c", "e", "r", "t", "b", "o", "t">>
W_NGINX == <<"-", "-", "n", "g", "i", "n", "x">>
W_D == <<"-", "d">>
W_NONINT == <<"-", "-", "n", "o", "n", "-", "i", "n", "t", "e", "r", "a", "c", "t", "i", "v", "e">>
W_AGREE == <<"-", "-", "a", "g", "r", "e", "e", "-", "t", "o", "s">>
W_M == <<"-", "m">>
W_ADMIN == <<"a", "d", "m", "i", "n", "@">>

\* enable_https_if_needed: the two early returns
CertSkipped(c) == bool_str(PyStr(c.https)) # "true" \/ is_ip(c.domain)

\* the command string enable_https_if_needed gives to run()
CertbotCommand(domain) ==
    JoinWords(<<W_CERTBOT, W_NGINX, W_D,
                shlex_quote(domain), W_NONINT, W_AGREE, W_M,
                shlex_quote(W_ADMIN \o domain)>>)

(***************************************************************************)
(* Bookkeeping shared by the actions                                       *)
(***************************************************************************)
Goto(op) ==
    /\ pc' = op
    /\ steps' = IF StepOf(op) = "end" \/ (steps # <<>> /\ Last(steps) = StepOf(op))
                THEN steps
                ELSE Append(steps, StepOf(op))

Continue(op) == Goto(op) /\ UNCHANGED <<status, exitCode, abortAt>>

\* an exception leaves main(): traceback, exit status 1
Raise(op) ==
    /\ status' = "Aborted"
    /\ exitCode' = 1
    /\ abortAt' = op
    /\ pc' = "exit"
    /\ steps' = steps

Fixed ==
    UNCHANGED <<host0, prev, isRoot, argv, cfg, secret, yaml_text, probe, printed, runNo,
                input, output>>

\* run(cmd): the command is started; when it ends with status zero the host becomes
\* newHost.  onExcept names where a surrounding try/except continues (None: no try).
Exec(cmd, next, onExcept, newHost) ==
    /\ pc = cmd
    /\ \E out \in Outcomes(host, cmd, isRoot) :
         /\ cmdLog' = Append(cmdLog, cmd)
         /\ shown' = Append(shown, cmd)
         /\ last' = [cmd |-> cmd, out |-> out,
                     user |-> Identity(UserArg(cmd, cfg), isRoot),
                     cwd |-> CwdArg(cmd, cfg)]
         /\ host' = IF out = "ok" THEN newHost ELSE host
         /\ IF Raises(cmd, out)
            THEN (IF onExcept = None THEN Raise(cmd) ELSE Continue(onExcept))
            ELSE Continue(next)
    /\ Fixed

run(cmd, next, newHost) == Exec(cmd, next, None, newHost) /\ UNCHANGED certCmd

\* a step of the program that starts no command through run()
Internal(op, next, newHost, logged) ==
    /\ pc = op
    /\ cmdLog' = IF logged THEN Append(cmdLog, op) ELSE cmdLog
    /\ host' = newHost
    /\ Continue(next)
    /\ UNCHANGED <<last, certCmd, shown>>

(***************************************************************************)
(* main(): one action per operation                                        *)
(***************************************************************************)
require_root ==
    /\ pc = "start"
    /\ IF MustExit(isRoot)
       THEN /\ status' = "Aborted"
            /\ exitCode' = 1
            /\ abortAt' = "require_root"
            /\ pc' = "exit"
            /\ steps' = steps
       ELSE Continue("parse_args")
    /\ Fixed
    /\ UNCHANGED <<host, cmdLog, last, certCmd, shown>>

ParseArgs ==
    /\ pc = "parse_args"
    /\ cfg' = parse_args(argv)
    /\ Continue(Entry(StepAfter("options")))
    /\ UNCHANGED <<host, host0, prev, isRoot, argv, secret, yaml_text, probe, printed,
                   cmdLog, last, certCmd, runNo, shown, input, output>>

\* ensure_packages
apt_update == run("apt_update", "apt_install_base", host)

apt_install_base == run("apt_install_base", "nodesource_setup", host)

nodesource_setup == run("nodesource_setup", "apt_install_nodejs", host)

apt_install_nodejs == run("apt_install_nodejs", "corepack_enable", host)

corepack_enable ==
    /\ Exec("corepack_enable", "yarn_version", "yarn_probe", [host EXCEPT !.yarn = TRUE])
    /\ UNCHANGED certCmd

yarn_version ==
    /\ Exec("yarn_version", "yarn_probe", "yarn_probe", host)
    /\ UNCHANGED certCmd

yarn_probe ==
    /\ Internal("yarn_probe",
                IF host.yarn THEN "apt_install_services" ELSE "npm_install_yarn",
                host, TRUE)
    /\ Fixed

npm_install_yarn ==
    run("npm_install_yarn", "apt_install_services", [host EXCEPT !.yarn = TRUE])

apt_install_services == run("apt_install_services", "systemctl_enable_now", host)

systemctl_enable_now ==
    run("systemctl_enable_now", Entry(StepAfter("packages")), host)

\* ensure_user
getpwnam ==
    /\ Internal("getpwnam", IF NeedsAdduser(host) THEN "adduser" ELSE "mkdir_home",
                host, FALSE)
    /\ Fixed

adduser ==
    run("adduser", "mkdir_home", [host EXCEPT !.userExists = TRUE, !.groupExists = TRUE])

mkdir_home ==
    /\ Internal("mkdir_home", Entry(StepAfter("user")),
                [host EXCEPT !.homeDir = TRUE], TRUE)
    /\ Fixed

\* ensure_db
role_probe ==
    /\ pc = "role_probe"
    /\ probe' = [probe EXCEPT !.role = PsqlPrintsOne(host, "role")]
    /\ cmdLog' = Append(cmdLog, "role_probe")
    /\ Continue(IF Absent(probe'.role) THEN "create_role" ELSE "db_probe")
    /\ UNCHANGED <<host, host0, prev, isRoot, argv, cfg, secret, yaml_text, printed,
                   last, certCmd, runNo, shown, input, output>>

create_role == run("create_role", "db_probe", [host EXCEPT !.rolePass = cfg.db_pass])

db_probe ==
    /\ pc = "db_probe"
    /\ probe' = [probe EXCEPT !.db = PsqlPrintsOne(host, "db")]
    /\ cmdLog' = Append(cmdLog, "db_probe")
    /\ Continue(IF Absent(probe'.db) THEN "create_db" ELSE Entry(StepAfter("db")))
    /\ UNCHANGED <<host, host0, prev, isRoot, argv, cfg, secret, yaml_text, printed,
                   last, certCmd, runNo, shown, input, output>>

create_db ==
    run("create_db", Entry(StepAfter("db")), [host EXCEPT !.dbOwner = cfg.db_user])

\* checkout, inline in main()
checkout_exists ==
    /\ Internal("checkout_exists", IF ~host.checkout THEN "git_clone" ELSE "git_fetch",
                host, FALSE)
    /\ Fixed

git_clone ==
    run("git_clone", Entry(StepAfter("checkout")),
        [host EXCEPT !.checkout = TRUE, !.worktree = UpstreamHead(runNo),
                     !.originRef = UpstreamHead(runNo)])

git_fetch == run("git_fetch", "git_reset", [host EXCEPT !.originRef = UpstreamHead(runNo)])

git_reset ==
    run("git_reset", Entry(StepAfter("checkout")), [host EXCEPT !.worktree = ResetTarget(host)])

\* ensure_yarn_install
yarn_install == run("yarn_install", Entry(StepAfter("deps")), host)

\* gen_secret_hex and build_production_yaml
render ==
    /\ pc = "render"
    /\ \E s \in Secrets :
         /\ secret' = s
         /\ yaml_text' = RenderFrom(cfg, s)
    /\ Continue("cfg_write")
    /\ UNCHANGED <<host, host0, prev, isRoot, argv, cfg, probe, printed, cmdLog, last,
                   certCmd, runNo, shown, input, output>>

\* write_file: mkdir of the parent and write_text; a new file gets the default mode
cfg_write ==
    /\ Internal("cfg_write", "cfg_chmod",
                [host EXCEPT !.configFile =
                    IF ~@.exists
                    THEN [exists |-> TRUE, content |-> write_text(host.configFile, yaml_text),
                          mode |-> "0644", owner |-> "root"]
                    ELSE [@ EXCEPT !.content = write_text(host.configFile, yaml_text)]],
                TRUE)
    /\ Fixed

cfg_chmod ==
    /\ Internal("cfg_chmod", "cfg_chown",
                [host EXCEPT !.configFile.mode = "0600"], FALSE)
    /\ Fixed

\* write_file: chown inside try/except, a failure is only warned about
cfg_chown ==
    /\ Internal("cfg_chown", Entry(StepAfter("config")),
                IF ChownSucceeds(host, cfg.pt_user)
                THEN [host EXCEPT !.configFile.owner = cfg.pt_user]
                ELSE host,
                FALSE)
    /\ Fixed

\* configure_nginx
site_write ==
    /\ Internal("site_write", "ln_site",
                [host EXCEPT !.siteFile =
                    [exists |-> TRUE, server_name |-> cfg.domain, port |-> cfg.web_port]],
                TRUE)
    /\ Fixed

ln_site == run("ln_site", "nginx_t", [host EXCEPT !.siteLinked = TRUE])

nginx_t == run("nginx_t", "nginx_reload", host)

nginx_reload == run("nginx_reload", Entry(StepAfter("proxy")), host)

\* enable_https_if_needed
cert_decide ==
    /\ Internal("cert_decide",
                IF CertSkipped(cfg) THEN Entry(StepAfter("cert")) ELSE "certbot",
                host, FALSE)
    /\ Fixed

certbot ==
    /\ Exec("certbot", Entry(StepAfter("cert")), None, host)
    /\ certCmd' = shlex_split(CertbotCommand(cfg.domain))

\* write_systemd_service
unit_exists ==
    /\ Internal("unit_exists", IF NeedsUnitWrite(host) THEN "unit_write" ELSE "daemon_reload",
                host, FALSE)
    /\ Fixed

unit_write ==
    /\ Internal("unit_write", "daemon_reload",
                [host EXCEPT !.unitFile = [exists |-> TRUE, user |-> cfg.pt_user,
                                             dir |-> pt_dir(cfg)]],
                TRUE)
    /\ Fixed

daemon_reload == run("daemon_reload", "systemctl_enable", host)

systemctl_enable == run("systemctl_enable", "systemctl_restart", host)

systemctl_restart == run("systemctl_restart", "sleep", host)

sleep == run("sleep", "systemctl_status", host)

systemctl_status == run("systemctl_status", Entry(StepAfter("unit")), host)

\* ufw_allow_http_https
ufw_probe ==
    /\ Internal("ufw_probe",
                IF host.ufw THEN "ufw_allow_80" ELSE Entry(StepAfter("firewall")),
                host, TRUE)
    /\ Fixed

ufw_allow_80 == run("ufw_allow_80", "ufw_allow_443", host)

ufw_allow_443 == run("ufw_allow_443", Entry(StepAfter("firewall")), host)

\* the closing prints of main(); returning from main() exits with status 0
summary ==
    /\ pc = "summary"
    /\ printed' = [exists |-> TRUE,
                   proto  |-> IF bool_str(PyStr(cfg.https)) = "true" THEN "https" ELSE "http",
                   domain |-> cfg.domain]
    /\ status' = "Completed"
    /\ exitCode' = 0
    /\ Goto(Entry(StepAfter("summary")))
    /\ UNCHANGED <<host, host0, prev, isRoot, argv, cfg, secret, yaml_text, probe, abortAt,
                   cmdLog, last, certCmd, runNo, shown, input, output>>

(***************************************************************************)
(* Functions called on their own                                           *)
(***************************************************************************)
\* Longest command line given to parse_args.
MaxArgs == 2

\* words of a command line; with each the key of the table it addresses ("none" when
\* it addresses none) and the integer its value denotes (<<>> when it denotes none)
ArgSamples ==
    {[text |-> <<"-", "-", "w", "e", "b", "_", "p", "o", "r", "t", "=", "8", "0">>,
      key |-> "web_port", int |-> <<80>>],
     [text |-> <<"-", "-", "w", "e", "b", "-", "p", "o", "r", "t", "=", "8", "0", "8", "0">>,
      key |-> "web_port", int |-> <<8080>>],
     [text |-> <<"-", "-", "d", "b", "_", "p", "o", "r", "t", "=", " ", "7", " ">>,
      key |-> "db_port", int |-> <<7>>],
     [text |-> <<"-", "-", "d", "b", "_", "p", "o", "r", "t", "=", "x">>,
      key |-> "db_port", int |-> <<>>],
     [text |-> <<"-", "-", "s", "m", "t", "p", "_", "p", "o", "r", "t", "=", "-", "5">>,
      key |-> "smtp_port", int |-> <<-5>>],
     [text |-> <<"-", "-", "s", "m", "t", "p", "_", "p", "o", "r", "t", "=">>,
      key |-> "smtp_port", int |-> <<>>],
     [text |-> <<"-", "-", "s", "m", "t", "p", "_", "p", "o", "r", "t", "=", "1", "_", "0">>,
      key |-> "smtp_port", int |-> <<10>>],
     [text |-> <<"-", "-", "w", "e", "b", "_", "p", "o", "r", "t", "=", "1", "_", "_", "0">>,
      key |-> "web_port", int |-> <<>>],
     [text |-> <<"-", "-", "w", "e", "b", "_", "p", "o", "r", "t", "=", "+", "3">>,
      key |-> "web_port", int |-> <<3>>],
     [text |-> <<"-", "-", "b", "o", "g", "u", "s", "=", "1">>,
      key |-> "none", int |-> <<>>],
     [text |-> <<"w", "e", "b", "_", "p", "o", "r", "t", "=", "5">>,
      key |-> "none", int |-> <<>>],
     [text |-> <<"-", "-", "w", "e", "b", "_", "p", "o", "r", "t">>,
      key |-> "none", int |-> <<>>],
     [text |-> <<"-", "-", " ", "w", "e", "b", "_", "p", "o", "r", "t", " ", "=", "9">>,
      key |-> "web_port", int |-> <<9>>],
     [text |-> <<"-", "-", "d", "b", "_", "p", "o", "r", "t", "=", "5", ".", "5">>,
      key |-> "db_port", int |-> <<>>],
     [text |-> <<"-", "-", "W", "e", "b", "_", "P", "o", "r", "t", "=", "1">>,
      key |-> "none", int |-> <<>>],
     [text |-> <<"-", "-", "w", "e", "b", "_", "p", "o", "r", "t", "=", "=", "5">>,
      key |-> "web_port", int |-> <<>>],
     [text |-> <<"-", "-", "d", "o", "m", "a", "i", "n", "=", "a", ".", "b">>,
      key |-> "domain", int |-> <<>>]}

ArgWords == {a.text : a \in ArgSamples}

CommandLines == UNION {[1 .. n -> ArgWords] : n \in 0 .. MaxArgs}

\* strings given to bool_str
BoolTexts ==
    {<<"1">>,
     <<"t", "r", "u", "e">>,
     <<"T", "R", "U", "E">>,
     <<"t", "R", "u", "E">>,
     <<"y", "e", "s">>,
     <<"Y", "e", "s">>,
     <<" ", "Y", "e", "s">>,
     <<"y", "e", "s", "\n">>,
     <<"\t", "Y", "E", "S", " ">>,
     <<"y">>,
     <<"Y">>,
     <<"o", "n">>,
     <<"O", "N">>,
     <<"O", "n", " ">>,
     <<"0">>,
     <<"0", "1">>,
     <<"f", "a", "l", "s", "e">>,
     <<"n", "o">>,
     <<>>,
     <<"o", "f", "f">>,
     <<"y", "e", "s", "s">>,
     <<"y", "e", " ", "s">>,
     <<"t">>,
     <<"t", "r", "u", "e", "e">>,
     <<" ", "1", " ">>,
     <<" ", " ">>}

BoolArgs ==
    {PyStr(t) : t \in BoolTexts} \cup {PyBool(b) : b \in BOOLEAN} \cup {PyInt(n) : n \in {0, 1, 2, 10}}

\* Longest list of resolution labels given to build_production_yaml.
MaxLabels == 3

Labels == {<<"7", "2", "0", "p">>, <<"1", "0", "8", "0", "p">>, <<"0", "p">>, <<"2", "1", "6", "0", "p">>, <<"f", "o", "o">>, <<"7", "2", "0", "P">>}

LabelLists == UNION {[1 .. n -> Labels] : n \in 0 .. MaxLabels}

\* values of the languages option
LanguageTexts ==
    {<<"e", "n", ",", "d", "e", ",", "a", "r">>,
     <<"e", "n", ",", "e", "n">>,
     <<"e", "n", ",", " ", "d", "e", " ", ",", "e", "n">>,
     <<"d", "e", ",", "e", "n", ",", "d", "e", ",", "a", "r">>,
     <<>>,
     <<",", ",">>,
     <<"f", "r">>,
     <<" ", "e", "n", " ", ",", "E", "N">>}

\* a call: the function, and its argument (words for parse_args, for the
\* resolutions of build_production_yaml and for the languages option of main's
\* rendering, x for bool_str)
PureInputs ==
    {[exists |-> TRUE, fn |-> "parse_args", words |-> w, x |-> PyBool(FALSE)] :
        w \in CommandLines}
    \cup {[exists |-> TRUE, fn |-> "bool_str", words |-> <<>>, x |-> b] : b \in BoolArgs}
    \cup {[exists |-> TRUE, fn |-> "build_production_yaml", words |-> w, x |-> PyBool(FALSE)] :
             w \in LabelLists}
    \cup {[exists |-> TRUE, fn |-> "render", words |-> <<t>>, x |-> PyBool(FALSE)] :
             t \in LanguageTexts}

Returns(value) ==
    /\ pc = "call"
    /\ pc' = "returned"
    /\ output' = [exists |-> TRUE, value |-> value]
    /\ UNCHANGED <<host, host0, prev, isRoot, argv, cfg, secret, yaml_text, status, exitCode,
                   abortAt, steps, cmdLog, last, probe, certCmd, printed, runNo, shown,
                   input>>

call_parse_args == input.fn = "parse_args" /\ Returns(parse_argv(input.words))

PureInit ==
    /\ host = CHOOSE g \in FreshHosts : g.envWordOnPath /\ g.ufw /\ ~g.unitFile.exists
    /\ host0 = host
    /\ prev = Nothing
    /\ isRoot = FALSE
    /\ argv = <<>>
    /\ pc = "call"
    /\ cfg = Nothing
    /\ secret = NoSecret
    /\ yaml_text = Nothing
    /\ status = "Running"
    /\ exitCode = -1
    /\ abortAt = None
    /\ steps = <<>>
    /\ cmdLog = <<>>
    /\ last = [cmd |-> None, out |-> None, user |-> None, cwd |-> NoDir]
    /\ probe = [role |-> FALSE, db |-> FALSE]
    /\ certCmd = <<>>
    /\ printed = Nothing
    /\ runNo = 1
    /\ shown = <<>>
    /\ input \in PureInputs
    /\ output = Nothing

call_bool_str == input.fn = "bool_str" /\ Returns(bool_str(input.x))

call_build_production_yaml ==
    /\ input.fn = "build_production_yaml"
    /\ \E s \in Secrets :
          Returns(build_production_yaml(parse_args(<<>>), s, NoList, Given(input.words)))

\* main: the document rendered for a value of the languages option
call_render ==
    /\ input.fn = "render"
    /\ \E s \in Secrets :
          Returns(RenderFrom([parse_args(<<>>) EXCEPT !.languages = input.words[1]], s))

PureNext == call_parse_args \/ call_bool_str \/ call_build_production_yaml \/ call_render

PureSpec == PureInit /\ [][PureNext]_vars

(***************************************************************************)
(* clone_or_update_repo, which main() does not call: called on its own     *)
(***************************************************************************)
Branches == {None, PEERTUBE_BRANCH}

\* checkouts the function may find: none; or one whose tree is at a commit, modified
\* locally, or ahead of the remote by a local commit
RepoHosts ==
    LET base == CHOOSE g \in FreshHosts : g.envWordOnPath /\ g.ufw /\ ~g.unitFile.exists
    IN  {[base EXCEPT !.userExists = TRUE, !.groupExists = TRUE, !.homeDir = TRUE]}
        \cup {[base EXCEPT !.userExists = TRUE, !.groupExists = TRUE, !.homeDir = TRUE,
                           !.checkout = TRUE, !.worktree = w, !.originRef = r] :
                 w \in {"c0", "local", "ahead"}, r \in {"c0", "c1"}}

cu_exists ==
    /\ Internal("cu_exists", IF ~host.checkout THEN "cu_clone" ELSE "cu_fetch", host, FALSE)
    /\ Fixed

cu_clone ==
    run("cu_clone", IF input.branch # None THEN "cu_checkout" ELSE "returned",
        [host EXCEPT !.checkout = TRUE, !.worktree = UpstreamHead(runNo),
                     !.originRef = UpstreamHead(runNo)])

cu_checkout == run("cu_checkout", "returned", host)

cu_fetch ==
    run("cu_fetch", IF input.branch # None THEN "cu_reset" ELSE "cu_pull",
        [host EXCEPT !.originRef = UpstreamHead(runNo)])

cu_reset == run("cu_reset", "returned", [host EXCEPT !.worktree = ResetTarget(host)])

cu_pull == run("cu_pull", "returned", [host EXCEPT !.worktree = PullRebase(host)])

RepoInit ==
    /\ host \in RepoHosts
    /\ host0 = host
    /\ prev = Nothing
    /\ isRoot \in BOOLEAN
    /\ argv = <<>>
    /\ pc = "cu_exists"
    /\ cfg = Nothing
    /\ secret = NoSecret
    /\ yaml_text = Nothing
    /\ status = "Running"
    /\ exitCode = -1
    /\ abortAt = None
    /\ steps = <<>>
    /\ cmdLog = <<>>
    /\ last = [cmd |-> None, out |-> None, user |-> None, cwd |-> NoDir]
    /\ probe = [role |-> FALSE, db |-> FALSE]
    /\ certCmd = <<>>
    /\ printed = Nothing
    /\ runNo = 1
    /\ shown = <<>>
    /\ input \in {[exists |-> TRUE, fn |-> "clone_or_update_repo", branch |-> b] :
                     b \in Branches}
    /\ output = Nothing

RepoNext == cu_exists \/ cu_clone \/ cu_checkout \/ cu_fetch \/ cu_reset \/ cu_pull

RepoSpec == RepoInit /\ [][RepoNext]_vars

(***************************************************************************)
(* Runs                                                                    *)
(***************************************************************************)
FileWrites == {"cfg_write", "site_write", "unit_write"}
CreateCmds == {"adduser", "create_role", "create_db", "git_clone"}

Init ==
    /\ host \in Hosts
    /\ host0 = host
    /\ prev = Nothing
    /\ isRoot \in BOOLEAN
    /\ argv \in Argvs
    /\ pc = "start"
    /\ cfg = Nothing
    /\ secret = NoSecret
    /\ yaml_text = Nothing
    /\ status = "Running"
    /\ exitCode = -1
    /\ abortAt = None
    /\ steps = <<>>
    /\ cmdLog = <<>>
    /\ last = [cmd |-> None, out |-> None, user |-> None, cwd |-> NoDir]
    /\ probe = [role |-> FALSE, db |-> FALSE]
    /\ certCmd = <<>>
    /\ printed = Nothing
    /\ runNo = 1
    /\ shown = <<>>
    /\ input = Nothing
    /\ output = Nothing

\* the operator starts the program again on the same host
NewRun ==
    /\ pc = "exit"
    /\ runNo < MaxRuns
    /\ runNo' = runNo + 1
    /\ prev' = [exists    |-> TRUE,
                argv      |-> argv,
                completed |-> status = "Completed",
                writes    |-> Range(cmdLog) \cap FileWrites]
    /\ isRoot' \in BOOLEAN
    /\ argv' \in Reruns(argv)
    /\ pc' = "start"
    /\ cfg' = Nothing
    /\ secret' = NoSecret
    /\ yaml_text' = Nothing
    /\ status' = "Running"
    /\ exitCode' = -1
    /\ abortAt' = None
    /\ steps' = <<>>
    /\ cmdLog' = <<>>
    /\ last' = [cmd |-> None, out |-> None, user |-> None, cwd |-> NoDir]
    /\ probe' = [role |-> FALSE, db |-> FALSE]
    /\ certCmd' = <<>>
    /\ printed' = Nothing
    /\ host0' = host
    /\ shown' = <<>>
    /\ UNCHANGED <<host, input, output>>

Next ==
    \/ require_root \/ ParseArgs
    \/ apt_update \/ apt_install_base \/ nodesource_setup \/ apt_install_nodejs
    \/ corepack_enable \/ yarn_version \/ yarn_probe \/ npm_install_yarn
    \/ apt_install_services \/ systemctl_enable_now
    \/ getpwnam \/ adduser \/ mkdir_home
    \/ role_probe \/ create_role \/ db_probe \/ create_db
    \/ checkout_exists \/ git_clone \/ git_fetch \/ git_reset
    \/ yarn_install
    \/ render \/ cfg_write \/ cfg_chmod \/ cfg_chown
    \/ site_write \/ ln_site \/ nginx_t \/ nginx_reload
    \/ cert_decide \/ certbot
    \/ unit_exists \/ unit_write \/ daemon_reload \/ systemctl_enable
    \/ systemctl_restart \/ sleep \/ systemctl_status
    \/ ufw_probe \/ ufw_allow_80 \/ ufw_allow_443
    \/ summary
    \/ NewRun

Spec == Init /\ [][Next]_vars


(***************************************************************************)
(* Properties                                                              *)
(***************************************************************************)
Ran(op) == op \in Range(cmdLog)

StepOrder == <<"options", "packages", "user", "db", "checkout", "deps", "config",
               "proxy", "cert", "unit", "firewall", "summary">>

StepIndex(step) == CHOOSE i \in DOMAIN StepOrder : StepOrder[i] = step

Entered(step) == step \in Range(steps)

\* C1: the steps of a run are entered in the order options, packages, account,
\* database, checkout, dependencies, config, proxy, certificate, unit, firewall,
\* summary, each at most once; the operation about to run belongs to the step entered
\* last; the operations performed so far follow that order; a completed run has
\* entered all of them.  (The log of operations only grows at its end, so it is in
\* order in every reachable state when its last two entries are in every reachable
\* state.)
C1_LinearOrder ==
    /\ Len(steps) <= Len(StepOrder) /\ steps = SubSeq(StepOrder, 1, Len(steps))
    /\ pc \notin {"start", "exit"} => steps # <<>> /\ StepOf(pc) = Last(steps)
    /\ Len(cmdLog) >= 2
          => StepIndex(StepOf(cmdLog[Len(cmdLog) - 1])) <= StepIndex(StepOf(Last(cmdLog)))
    /\ cmdLog # <<>> => Entered(StepOf(Last(cmdLog)))
    /\ status = "Completed" => steps = StepOrder

C1_Witness == status = "Completed" /\ steps = StepOrder /\ Ran("certbot") /\ Ran("unit_write")

\* commands of steps 1-6 that change the host
Converging16 == {"apt_update", "apt_install_base", "nodesource_setup", "apt_install_nodejs",
                 "corepack_enable", "npm_install_yarn", "apt_install_services",
                 "systemctl_enable_now", "adduser", "create_role", "create_db",
                 "git_clone", "git_fetch", "git_reset", "yarn_install"}

\* what holds right after command last.cmd ended a run
AbortedBy(cmd) ==
    /\ status = "Aborted" /\ exitCode = 1 /\ pc = "exit" /\ abortAt = cmd
    /\ Last(cmdLog) = cmd /\ Count(cmdLog, cmd) = 1
    /\ \A op \in Range(cmdLog) : StepIndex(StepOf(op)) <= StepIndex(StepOf(cmd))
    /\ Range(cmdLog) \cap {"cfg_write", "site_write", "certbot", "unit_write",
                           "systemctl_restart", "ufw_allow_80", "ufw_allow_443"} = {}
    /\ (Ran("adduser") /\ cmd # "adduser") => host.userExists
    /\ Ran("mkdir_home") => host.homeDir
    /\ (Ran("create_role") /\ cmd # "create_role") => host.rolePass # None
    /\ (Ran("create_db") /\ cmd # "create_db") => host.dbOwner # None
    /\ (Ran("git_clone") /\ cmd # "git_clone") => host.checkout

\* C2 as stated: a converging command of steps 1-6 that fails ends the run Aborted.
C2_Original == (last.cmd \in Converging16 /\ last.out # "ok") => AbortedBy(last.cmd)

\* C2, amended: a command of steps 1-6 other than "corepack enable" that does not end
\* with status zero ends the run Aborted with exit status 1; it is the last operation
\* of the run and was started once; nothing of a later step was done; what earlier
\* commands created is still there.
C2_FatalFailure ==
    (last.cmd \in Converging16 \ {"corepack_enable"} /\ last.out # "ok")
        => AbortedBy(last.cmd)

C2_Witness ==
    /\ last.cmd = "yarn_install" /\ last.out = "fail"
    /\ status = "Aborted" /\ host.checkout /\ Ran("git_clone")

\* C3 as stated: when "nginx -t" fails the reload is not executed and the run is not
\* aborted.
C3_Claim ==
    (last.cmd = "nginx_t" /\ last.out = "fail")
        => (~Ran("nginx_reload") /\ status # "Aborted")

BestEffortCmds == {"certbot", "systemctl_enable", "systemctl_restart", "systemctl_status",
                   "ufw_allow_80", "ufw_allow_443"}

\* C4: a failure of the certificate command, of systemctl enable/restart/status or of
\* an ufw allow command leaves the run running at the operation that follows; no run
\* is ever aborted by one of them; after such a failure the run can take its next
\* operation; and a
\* completed run has exit status 0 and has gone through every step.
C4_BestEffort ==
    /\ (last.cmd \in BestEffortCmds /\ last.out = "fail" /\ Last(cmdLog) = last.cmd)
          => /\ status # "Aborted"
             /\ pc = "exit" <=> status = "Completed"
             /\ pc # "exit" => StepIndex(StepOf(pc)) >= StepIndex(StepOf(last.cmd))
    /\ abortAt \notin BestEffortCmds
    /\ (last.cmd \in BestEffortCmds /\ last.out = "fail" /\ pc # "exit") => ENABLED Next
    /\ status = "Completed" => exitCode = 0 /\ steps = StepOrder /\ printed.exists

C4_Witness ==
    status = "Completed" /\ exitCode = 0 /\ last.cmd = "ufw_allow_443" /\ last.out = "fail"

\* C5 as stated: a run as root never ends Aborted unless an external tool returned
\* failure.
C5_Claim == (isRoot /\ status = "Aborted") => last.out = "fail"

Resources(h) ==
    /\ h.userExists /\ h.rolePass # None /\ h.dbOwner # None
    /\ h.checkout /\ h.unitFile.exists

\* C6: in a run that follows a run with the same arguments on a host where account,
\* role, database, checkout and unit file exist, no create command is started and the
\* unit file is not written; when it completes it has written exactly the config file
\* and the proxy site file, as the completed run before it did.
C6_Idempotent ==
    (prev.exists /\ prev.argv = argv /\ Resources(host0))
        => /\ Range(cmdLog) \cap CreateCmds = {}
           /\ ~Ran("unit_write")
           /\ host.unitFile = host0.unitFile
           /\ status = "Completed"
                 => /\ Range(cmdLog) \cap FileWrites = {"cfg_write", "site_write"}
                    /\ prev.completed
                          => prev.writes \ {"unit_write"} = Range(cmdLog) \cap FileWrites

C6_Witness ==
    /\ prev.exists /\ prev.completed /\ prev.argv = argv /\ Resources(host0)
    /\ status = "Completed" /\ Ran("git_reset")

\* C7: a run that is not root ends at once with exit status 1: it starts no command,
\* writes no file and leaves the host as it was.
C7_NotRoot ==
    ~isRoot => /\ cmdLog = <<>> /\ steps = <<>> /\ host = host0
               /\ pc \in {"start", "exit"}
               /\ pc = "exit" => status = "Aborted" /\ exitCode = 1
                                     /\ abortAt = "require_root"

C7_Witness == ~isRoot /\ pc = "exit" /\ status = "Aborted" /\ exitCode = 1

\* four groups of one to three digits separated by three dots
IsDottedQuad(d) ==
    LET dots == {i \in DOMAIN d : d[i] = "."}
        ends == dots \cup {Len(d) + 1}
        \* the group that starts after position a ends before the next dot or the end
        EndOf(a) == CHOOSE b \in ends : b > a /\ \A c \in ends : c > a => b <= c
    IN  /\ Cardinality(dots) = 3
        /\ \A i \in DOMAIN d : i \in dots \/ d[i] \in Digits
        /\ \A a \in dots \cup {0} : EndOf(a) - a - 1 \in 1 .. 3

ExpectedCertArgv(d) ==
    <<W_CERTBOT, W_NGINX, W_D, d, W_NONINT, W_AGREE, W_M, W_ADMIN \o d>>

\* C8: when the https option parses as false or the domain is a dotted quad the
\* certificate command is never started and the run goes on to the unit step;
\* otherwise it is started once the step is decided, never twice, with
\* --non-interactive and the address admin@<domain>.
C8_Certificate ==
    cfg # Nothing =>
        LET off == bool_str(PyStr(cfg.https)) # "true"
            skip == off \/ IsDottedQuad(cfg.domain)
            decided == Entered("cert") /\ pc # "cert_decide"
        IN  /\ skip => /\ ~Ran("certbot") /\ certCmd = <<>>
                       /\ decided => Entered("unit")
            /\ ~skip => /\ Count(cmdLog, "certbot") <= 1
                        /\ decided => (Ran("certbot") \/ pc = "certbot")
                        /\ Entered("unit") => Count(cmdLog, "certbot") = 1
                        /\ Ran("certbot") => certCmd = ExpectedCertArgv(cfg.domain)

C8_Witness ==
    /\ cfg # Nothing /\ IsDottedQuad(cfg.domain) /\ bool_str(PyStr(cfg.https)) = "true"
    /\ status = "Completed" /\ ~Ran("certbot") /\ Ran("daemon_reload")

\* C9 as stated: no artifact of a run carries an empty domain (an empty domain option
\* is replaced by the primary IPv4 address of the host first).
C9_Claim ==
    /\ Ran("cfg_write") => /\ host.configFile.content.hostname # <<>>
                           /\ host.configFile.content.from_address # FromPrefix \o <<">">>
    /\ Ran("site_write") => host.siteFile.server_name # <<>>
    /\ Ran("certbot") => certCmd[4] # <<>>
    /\ printed.exists => printed.domain # <<>>

\* C10: the role is created only after its probe printed no row, the database only
\* after its probe printed no row, and a created database is owned by the role; a
\* role that existed when a run started keeps its password throughout the run,
\* whatever db_pass the run was given.
C10_Database ==
    /\ (Ran("create_role") \/ pc = "create_role") => probe.role = FALSE
    /\ (Ran("create_db") \/ pc = "create_db") => probe.db = FALSE
    /\ Count(cmdLog, "create_role") <= 1 /\ Count(cmdLog, "create_db") <= 1
    /\ (last.cmd = "create_db" /\ last.out = "ok") => host.dbOwner = cfg.db_user
    /\ host0.rolePass # None => host.rolePass = host0.rolePass
    /\ host0.dbOwner # None => host.dbOwner = host0.dbOwner

C10_Witness ==
    /\ host0.rolePass # None /\ cfg # Nothing /\ cfg.db_pass # host0.rolePass
    /\ status = "Completed" /\ host.rolePass = host0.rolePass /\ ~Ran("create_role")

\* every secret the program can draw is a string of 64 lowercase hexadecimal digits
SecretsAreHex ==
    \A s \in Secrets :
        Len(s) = 64 /\ \A i \in DOMAIN s : s[i] \in Digits \cup {"a", "b", "c", "d", "e", "f"}

\* C11: once a run has written the config file, the content of the file is exactly
\* the document rendered from this run's options and this run's secret, whatever the
\* file held before; the secret is a string of 64 lowercase hexadecimal digits; and
\* a run holds no secret before its own render, so none is carried over from the
\* run before.
C11_FullReplace ==
    /\ SecretsAreHex
    /\ Ran("cfg_write")
          => /\ host.configFile.exists
             /\ host.configFile.content = RenderFrom(cfg, secret)
             /\ host.configFile.content = yaml_text
    /\ (pc = "render" \/ ~Entered("config")) => secret = NoSecret /\ yaml_text = Nothing
    /\ (Entered("config") /\ pc # "render") => secret \in Secrets

C11_Witness ==
    /\ host0.configFile.exists /\ Ran("cfg_write") /\ Entered("proxy")
    /\ host.configFile.content.secret # host0.configFile.content.secret
    /\ host.configFile.content.db_pass # host0.configFile.content.db_pass
    /\ host.configFile.content = RenderFrom(cfg, secret)

\* C12 as stated: once the config step of a run is complete the config file is owned
\* by the service account and has mode 0600.
C12_Claim ==
    (Ran("cfg_write") /\ Entered("proxy"))
        => host.configFile.owner = cfg.pt_user /\ host.configFile.mode = "0600"

IsUnitCommand(op) == op \in {"daemon_reload", "systemctl_enable", "systemctl_restart"}

UnitCommands == <<"daemon_reload", "systemctl_enable", "systemctl_restart">>

\* C13: a unit file that exists when the run starts is never written and keeps its
\* content, also when its user and directory differ from the options; a unit file is
\* written exactly when there was none, and then holds the account and checkout path
\* of the options; in both cases the step goes on to daemon-reload, enable, restart,
\* started in that order and once each.
C13_UnitFile ==
    /\ host0.unitFile.exists => ~Ran("unit_write") /\ host.unitFile = host0.unitFile
    /\ Ran("unit_write")
          => /\ ~host0.unitFile.exists
             /\ host.unitFile = [exists |-> TRUE, user |-> cfg.pt_user, dir |-> pt_dir(cfg)]
    /\ ~Ran("unit_write") => host.unitFile = host0.unitFile
    /\ (Entered("unit") /\ pc \notin {"unit_exists", "unit_write"})
          => (Ran("unit_write") <=> ~host0.unitFile.exists)
    /\ (Entered("unit") /\ pc \notin {"unit_exists", "unit_write", "daemon_reload"})
          => Ran("daemon_reload")
    /\ \E n \in 0 .. 3 : SelectSeq(cmdLog, IsUnitCommand) = SubSeq(UnitCommands, 1, n)
    /\ Entered("firewall") => SelectSeq(cmdLog, IsUnitCommand) = UnitCommands

C13_Witness ==
    /\ host0.unitFile.exists /\ cfg # Nothing /\ host0.unitFile.user # cfg.pt_user
    /\ host0.unitFile.dir # pt_dir(cfg)
    /\ Entered("firewall") /\ Ran("systemctl_restart") /\ host.unitFile = host0.unitFile

IsCheckoutCommand(op) == op \in {"git_clone", "git_fetch", "git_reset"}

\* C14: on a host where the checkout exists the run starts fetch and then reset, once
\* each and in that order, and never clone; once the step is complete the working tree
\* and the remote-tracking reference are the upstream head of this run, local
\* modifications included; on a host without the checkout the run starts clone and
\* never fetch or reset.
C14_Checkout ==
    LET log == SelectSeq(cmdLog, IsCheckoutCommand)
    IN  /\ host0.checkout
              => /\ \E n \in 0 .. 2 : log = SubSeq(<<"git_fetch", "git_reset">>, 1, n)
                 /\ Entered("deps")
                       => /\ log = <<"git_fetch", "git_reset">>
                          /\ host.originRef = UpstreamHead(runNo)
                          /\ host.worktree = host.originRef
        /\ ~host0.checkout
              => /\ log \in {<<>>, <<"git_clone">>}
                 /\ Entered("deps")
                       => /\ log = <<"git_clone">>
                          /\ host.checkout /\ host.worktree = UpstreamHead(runNo)

C14_Witness ==
    /\ host0.checkout /\ host0.worktree = "local" /\ host0.originRef # UpstreamHead(runNo)
    /\ Entered("deps") /\ host.worktree = UpstreamHead(runNo)

\* C15 as stated: in clone_or_update_repo without a branch, a pull that fails is not
\* raised to the caller, and the pull leaves local commits as they were.
C15_Claim ==
    /\ (last.cmd = "cu_pull" /\ last.out = "fail") => (status # "Aborted" /\ pc = "returned")
    /\ (last.cmd = "cu_pull" /\ host0.worktree = "ahead") => host.worktree = "ahead"

SampleOf(word) == CHOOSE a \in ArgSamples : a.text = word

\* the integer the last word of the command line that addresses key k and denotes an
\* integer gives it; the default when there is no such word
ExpectedInt(words, k) ==
    LET hits == {i \in DOMAIN words :
                    SampleOf(words[i]).key = k /\ SampleOf(words[i]).int # <<>>}
    IN  IF hits = {} THEN DEFAULTS[k]
        ELSE SampleOf(words[CHOOSE i \in hits : \A j \in hits : j <= i]).int[1]

AddressesKey(word) == SampleOf(word).key # "none"

\* C16: parse_args returns a table with the keys of the defaults; web_port, db_port
\* and smtp_port hold integers: the one given by the last argument for the key whose
\* value is an integer, the default when no argument for the key has one; arguments
\* that address no key of the table make no difference to the result.
C16_ParseArgs ==
    (input.exists /\ input.fn = "parse_args" /\ output.exists)
        => LET c == output.value
           IN  /\ DOMAIN c = DOMAIN DEFAULTS
               /\ \A k \in IntKeys : c[k] \in Int /\ c[k] = ExpectedInt(input.words, k)
               /\ c = parse_argv(SelectSeq(input.words, AddressesKey))
               /\ (\A i \in DOMAIN input.words : ~AddressesKey(input.words[i]))
                      => c = [DEFAULTS EXCEPT !.from_address = DefaultFrom]

C16_Witness ==
    /\ input.exists /\ input.fn = "parse_args" /\ output.exists
    /\ Len(input.words) = 2
    /\ SampleOf(input.words[1]).key = "web_port" /\ SampleOf(input.words[1]).int = <<80>>
    /\ SampleOf(input.words[2]).key = "web_port" /\ SampleOf(input.words[2]).int = <<>>
    /\ output.value.web_port = 80

TruthyWords == {<<"1">>, <<"t", "r", "u", "e">>, <<"y", "e", "s">>, <<"y">>, <<"o", "n">>}

SameLetter(a, b) ==
    a = b \/ \E i \in DOMAIN UpperChars : {a, b} = {UpperChars[i], LowerChars[i]}

EqualIgnoringCase(a, b) == Len(a) = Len(b) /\ \A i \in DOMAIN a : SameLetter(a[i], b[i])

\* the text between the first and the last character that is not whitespace
Trimmed(a) ==
    LET solid == {i \in DOMAIN a : a[i] \notin {" ", "\t", "\n", "\r"}}
    IN  IF solid = {} THEN <<>>
        ELSE SubSeq(a, CHOOSE i \in solid : \A j \in solid : i <= j,
                       CHOOSE i \in solid : \A j \in solid : j <= i)

\* the text of a value that is not a boolean
TextOf(x) ==
    IF x.t = "str" THEN x.s
    ELSE CASE x.n = 0 -> <<"0">> [] x.n = 1 -> <<"1">> [] x.n = 2 -> <<"2">>
           [] x.n = 10 -> <<"1", "0">>

\* C17 as stated: "true" for every string equal, ignoring letter case, to one of
\* 1, true, yes, y, on; "false" for every other input that is not a boolean; the
\* matching literal for a boolean.
C17_Original ==
    (input.exists /\ input.fn = "bool_str" /\ output.exists)
        => output.value =
              IF input.x.t = "bool" THEN (IF input.x.b THEN "true" ELSE "false")
              ELSE IF /\ input.x.t = "str"
                      /\ \E w \in TruthyWords : EqualIgnoringCase(input.x.s, w)
                   THEN "true" ELSE "false"

\* C17, amended: "true" for every input that is not a boolean and whose text, with
\* the whitespace at its two ends removed, equals, ignoring letter case, one of
\* 1, true, yes, y, on; "false" for every other input that is not a boolean; the
\* matching literal for a boolean.
C17_BoolStr ==
    (input.exists /\ input.fn = "bool_str" /\ output.exists)
        => output.value =
              IF input.x.t = "bool" THEN (IF input.x.b THEN "true" ELSE "false")
              ELSE IF \E w \in TruthyWords : EqualIgnoringCase(Trimmed(TextOf(input.x)), w)
                   THEN "true" ELSE "false"

C17_Witness ==
    /\ input.exists /\ input.fn = "bool_str" /\ output.exists
    /\ input.x = PyStr(<<"\t", "Y", "E", "S", " ">>) /\ output.value = "true"

Tiers == {<<"0", "p">>,
          <<"1", "4", "4", "p">>,
          <<"2", "4", "0", "p">>,
          <<"3", "6", "0", "p">>,
          <<"4", "8", "0", "p">>,
          <<"7", "2", "0", "p">>,
          <<"1", "0", "8", "0", "p">>,
          <<"1", "4", "4", "0", "p">>,
          <<"2", "1", "6", "0", "p">>}

\* C18: the document built for a list of resolution labels holds a flag, "true" or
\* "false", for each of the nine tiers and for nothing else; the flag of a tier is
\* "true" exactly when the tier occurs in the list, in whatever order, however often
\* and whatever else the list holds; for the empty list all nine flags are "false".
C18_Resolutions ==
    (input.exists /\ input.fn = "build_production_yaml" /\ output.exists)
        => LET flags == output.value.resolutions
           IN  /\ DOMAIN flags = Tiers /\ Cardinality(Tiers) = 9
               /\ \A k \in Tiers :
                     /\ flags[k] \in {"true", "false"}
                     /\ flags[k] = "true" <=> \E i \in DOMAIN input.words : input.words[i] = k
               /\ input.words = <<>> => \A k \in Tiers : flags[k] = "false"

C18_Witness ==
    /\ input.exists /\ input.fn = "build_production_yaml" /\ output.exists
    /\ input.words = <<<<"1", "0", "8", "0", "p">>, <<"f", "o", "o">>, <<"1", "0", "8", "0", "p">>>>
    /\ output.value.resolutions[<<"1", "0", "8", "0", "p">>] = "true"
    /\ output.value.resolutions[<<"7", "2", "0", "p">>] = "false"

StartsProcess(op) == op \notin FileOps

ThroughRunner(op) == op \notin FileOps \cup DirectProcesses

\* what run() printed is, in order, the commands it started
RunnerShowsItsCommands == SelectSeq(cmdLog, ThroughRunner) = shown

\* C19: the processes started so far in the run are, in order, exactly the commands
\* that run() has shown: none was started without its line, the probes included.
C19_Claim == SelectSeq(cmdLog, StartsProcess) = shown

\* a command string not given with shell=True was read by no shell
C20_NeverShell ==
    \A i \in DOMAIN shown :
        (shown[i] \notin ListCmds /\ shown[i] \notin ShellCmds)
            => Interpreter(shown[i], isRoot) = None

\* a command string with a shell operator was given with shell=True
C20_OperatorsMarked ==
    \A i \in DOMAIN shown : shown[i] \in OperatorCmds => shown[i] \in ShellCmds

\* C20: of the commands run() has started in this run, every string given without
\* shell=True was started as its words and read by no shell, whether or not it ran
\* as a user, and every string that holds a shell operator was given with shell=True.
C20_Claim == C20_NeverShell /\ C20_OperatorsMarked

ServiceCmds == {"git_clone", "git_fetch", "git_reset", "yarn_install"}

\* C21: in a run as root, a command of the checkout and dependency steps (clone,
\* fetch, reset, yarn install) executes under the service account of the options,
\* which is not root, and in the checkout directory where one is given; every other
\* command of run(), given no account, executes as root, the account of the run.
C21_RunAs ==
    (isRoot /\ last.cmd # None)
        => /\ last.cmd \in ServiceCmds
                => /\ last.user = cfg.pt_user /\ last.user # "root"
                   /\ last.cmd # "git_clone" => last.cwd = <<cfg.pt_home, "peertube">>
           /\ last.cmd \notin ServiceCmds => last.user = "root"

C21_Witness ==
    /\ isRoot /\ last.cmd = "git_reset" /\ last.out = "ok"
    /\ last.user = "peertube" /\ last.cwd # NoDir
    /\ Ran("git_fetch")

\* modes that grant nothing to the group and to others
OwnerOnlyModes == {"0600", "0400", "0700"}

\* C22: whenever the config file exists and holds a generated secret, also between
\* the write of its content and the change of its mode and on a host that had no
\* such file, its mode grants no access to accounts other than its owner.
C22_Claim ==
    (host.configFile.exists /\ host.configFile.content.secret \in Secrets)
        => host.configFile.mode \in OwnerOnlyModes

\* the entries of a list without the repetitions, in the order of first occurrence
FirstOccurrences(list) ==
    SelectSeq([i \in DOMAIN list |-> [at |-> i, item |-> list[i]]],
              LAMBDA e : \A j \in 1 .. (e.at - 1) : list[j] # e.item)

\* C23: the languages of the document rendered for a value of the languages option
\* are pairwise different, and they are the languages named by the option in the
\* order in which each is named first.
C23_Claim ==
    (input.exists /\ input.fn = "render" /\ output.exists)
        => LET langs == output.value.languages
               named == FirstOccurrences(ListOption(input.words[1]))
           IN  /\ \A i, j \in DOMAIN langs : i # j => langs[i] # langs[j]
               /\ Len(langs) = Len(named)
               /\ \A i \in DOMAIN langs : langs[i] = named[i].item

=============================================================================
